---- MODULE Spec2Model ----
(***************************************************************************)
(* A model of bagitbb.py: the checksum manifests (class Manifest), the     *)
(* fast comparison, the file copies, bag_files, and Main in the modes      *)
(* unbag, validate and update (class BetterBag), over a small POSIX        *)
(* filesystem.  Strings (paths, digests, lines of text) are sequences of   *)
(* one-character strings, so that str.replace, the '../objects/' prefix    *)
(* and the order of sorted() are computed character by character.          *)
(***************************************************************************)
EXTENDS Integers, Sequences, FiniteSets, TLC

VARIABLES
    files,          \* the regular files: absolute path -> content (a sequence of bytes)
    dirs,           \* the directories: a set of absolute paths
    pc,             \* the position of the running operation
    indirs,         \* bag_files: the list of sources
    outdir,         \* bag_files / fast_compare: the destination
    fast,           \* the fast-verification option
    quiet,          \* the quiet option (errors are raised, not printed)
    x,              \* bag_files: the index of the source loop (0-based, as in the code)
    manifest,       \* self.manifest of the Manifest being built or compared
    target_manifest,\* the manifest handed to Manifest.compare
    outcome,        \* how the operation ended: [kind, type, text, paths]
    faults,         \* the number of copy faults the storage has produced so far
    target,         \* Manifest.create / fast_compare: the tree being read
    exclude,        \* the exclusion list of get_file_list / get_file_details
    processes,      \* the size of the multiprocessing pool
    file_list,      \* Manifest.create: the files in the order they were visited
    task,           \* the pool: worker -> index of the file it is hashing (0: idle)
    next_task,      \* the pool: index of the next file to hand out
    done_order,     \* the pool: the indices in the order the workers finished
    results,        \* the pool: index -> digest, as far as computed
    written,        \* the text files written: absolute path -> content (characters)
    old_manifest,   \* bag_files: old_manifest.manifest, accumulated over the sources
    bag,            \* the bag made by bagit: [path, entries, info], or NoBag
    alg,            \* the checksum algorithm: 'sha256' or 'md5'
    mode,           \* Main: 'bag', 'unbag', 'validate' or 'update'
    inplace,        \* the in-place option
    archivematica,  \* unbag: the archival (Archivematica) layout option
    copy_bag_files, \* unbag: the option to keep the bag's metadata files (sidecar)
    update_manifest,\* update: the option to regenerate the bag's manifests
    bag_path,       \* BetterBag.bag_path
    paths,          \* unbag: the dict made by set_unbag_paths
    tmp_dir,        \* unbag: the staging directory of setup_tmp_dir ('' when none)
    bag_metadata_folder, \* unbag: the directory made by make_bag_metadata_folder
    validated,      \* whether bagit has been asked to validate the bag in this run
    files0,         \* the regular files when the run began
    dirs0           \* the directories when the run began

vars == <<files, dirs, pc, indirs, outdir, fast, quiet, x, manifest, target_manifest,
          outcome, faults, target, exclude, processes, file_list, task, next_task,
          done_order, results, written, old_manifest, bag, alg, mode, inplace,
          archivematica, copy_bag_files, update_manifest, bag_path, paths, tmp_dir,
          bag_metadata_folder, validated, files0, dirs0>>

\* The state of the unbag, validate and update modes.
unbag_state ==
    <<mode, inplace, archivematica, copy_bag_files, update_manifest, bag_path, paths,
      tmp_dir, bag_metadata_folder, validated, files0, dirs0>>

----------------------------------------------------------------------------
(* Characters and strings *)

\* The characters the model uses, in ASCII order (the order str comparison uses).
Alphabet ==
    <<"\n", " ", "-", ".", "/", "0", "1", "2", "3", "4", "5", "6", "7", "8", "9",
      "D", "_", "a", "b", "c", "d", "e", "f", "g", "h", "i", "j", "k", "l", "m",
      "n", "o", "p", "q", "r", "s", "t", "u", "v", "w", "x", "y", "z">>

Ord(c) ==
    CHOOSE i \in 1..Len(Alphabet) : Alphabet[i] = c

\* s < t for two str values (lexicographic on code points).
StrLess(s, t) ==
    \E k \in 0..Len(s) :
        /\ k <= Len(t)
        /\ \A i \in 1..k : s[i] = t[i]
        /\ \/ k = Len(s) /\ k < Len(t)
           \/ k < Len(s) /\ k < Len(t) /\ Ord(s[k+1]) < Ord(t[k+1])

\* s.startswith(p)
StartsWith(s, p) ==
    /\ Len(p) <= Len(s)
    /\ \A i \in 1..Len(p) : s[i] = p[i]

\* p in s (substring test on str)
Contains(s, p) ==
    \E k \in 0..(Len(s) - Len(p)) : \A i \in 1..Len(p) : s[k+i] = p[i]

Drop(s, n) ==
    [i \in 1..(Len(s) - n) |-> s[i+n]]

RECURSIVE Replace(_, _)
\* s.replace(old, ''): every non-overlapping occurrence, left to right.
Replace(s, old) ==
    IF Len(old) = 0 \/ Len(s) < Len(old) THEN s
    ELSE IF StartsWith(s, old) THEN Replace(Drop(s, Len(old)), old)
    ELSE <<s[1]>> \o Replace(Tail(s), old)

RECURSIVE ReplaceFirst(_, _)
\* s.replace(old, '', 1): the first occurrence only.
ReplaceFirst(s, old) ==
    IF Len(old) = 0 \/ Len(s) < Len(old) THEN s
    ELSE IF StartsWith(s, old) THEN Drop(s, Len(old))
    ELSE <<s[1]>> \o ReplaceFirst(Tail(s), old)

Range(f) ==
    {f[i] : i \in DOMAIN f}

RECURSIVE Sum(_)
\* The sum of the values of a function with a finite domain.
Sum(f) ==
    IF DOMAIN f = {} THEN 0
    ELSE LET e == CHOOSE e \in DOMAIN f : TRUE
         IN  f[e] + Sum([g \in DOMAIN f \ {e} |-> f[g]])

----------------------------------------------------------------------------
(* os.path on POSIX *)

sep ==
    <<"/">>

\* The index of the last '/' of p (0 when there is none).
LastSep(p) ==
    IF \E i \in 1..Len(p) : p[i] = "/"
    THEN CHOOSE i \in 1..Len(p) : p[i] = "/" /\ \A j \in (i+1)..Len(p) : p[j] # "/"
    ELSE 0

\* os.path.dirname: the head up to the last '/', without trailing slashes unless
\* it is the root.
dirname(p) ==
    LET head == SubSeq(p, 1, LastSep(p))
    IN  IF head # <<>> /\ \E i \in 1..Len(head) : head[i] # "/"
        THEN SubSeq(head, 1, Len(head) - 1)
        ELSE head

\* os.path.basename
basename(p) ==
    Drop(p, LastSep(p))

\* os.path.join(a, b) for a relative b
join(a, b) ==
    IF a = <<>> THEN b
    ELSE IF a[Len(a)] = "/" THEN a \o b
    ELSE a \o sep \o b

isfile(fs, p) ==
    p \in DOMAIN fs

isdir(ds, p) ==
    p \in ds

\* f lies beneath directory d
Under(f, d) ==
    StartsWith(f, join(d, <<>>)) /\ Len(f) > Len(join(d, <<>>))

\* Path(t).rglob('*') filtered by os.path.isfile: the regular files beneath t.
rglob_files(fs, t) ==
    {f \in DOMAIN fs : Under(f, t)}

\* Every proper ancestor directory of path p, the root excluded.
RECURSIVE Ancestors(_)
Ancestors(p) ==
    IF Len(dirname(p)) <= 1 \/ dirname(p) = p THEN {}
    ELSE {dirname(p)} \cup Ancestors(dirname(p))

RECURSIVE SetToSeq(_)
\* Some enumeration of a finite set (the order a directory walk happens to use).
SetToSeq(S) ==
    IF S = {} THEN <<>>
    ELSE LET e == CHOOSE e \in S : TRUE
         IN  <<e>> \o SetToSeq(S \ {e})

\* All enumerations of a finite set.
Orders(S) ==
    {o \in [1..Cardinality(S) -> S] : Range(o) = S}

----------------------------------------------------------------------------
(* File contents and digests *)

Hex ==
    <<"0", "1", "2", "3", "4", "5", "6", "7", "8", "9", "a", "b", "c", "d", "e", "f">>

RECURSIVE BinVal(_)
BinVal(c) ==
    IF c = <<>> THEN 0 ELSE 2 * BinVal(SubSeq(c, 1, Len(c) - 1)) + c[Len(c)]

\* hashlib's hexdigest of a content: a fixed-width hex string, distinct contents
\* giving distinct digests (no collisions among the contents of the model).
hexdigest(c) ==
    <<Hex[Len(c) + 1], Hex[BinVal(c) + 1]>>

\* Manifest.get_hash: the digest of the file's bytes.
get_hash(fs, filename) ==
    hexdigest(fs[filename])

\* os.stat(f).st_size
st_size(fs, f) ==
    Len(fs[f])

----------------------------------------------------------------------------
(* class Manifest: a manifest is a list of tuples <<path, digest>> *)

\* tuple comparison of sorted(): first the path, then the digest.
EntryLess(e1, e2) ==
    \/ StrLess(e1[1], e2[1])
    \/ e1[1] = e2[1] /\ StrLess(e1[2], e2[2])

RECURSIVE Insert(_, _)
Insert(e, s) ==
    IF s = <<>> THEN <<e>>
    ELSE IF EntryLess(e, s[1]) THEN <<e>> \o s
    ELSE <<s[1]>> \o Insert(e, Tail(s))

RECURSIVE sorted(_)
\* sorted(list of tuples)
sorted(s) ==
    IF s = <<>> THEN <<>> ELSE Insert(s[1], sorted(Tail(s)))

IsSorted(s) ==
    \A i \in 1..(Len(s) - 1) : ~EntryLess(s[i+1], s[i])

\* any(p in str(f) for p in exclude)
Excluded(f, excl) ==
    \E i \in 1..Len(excl) : Contains(f, excl[i])

\* Manifest.get_file_list, the files of the walk taken in the order `visit`.
get_file_list(fs, ds, t, excl, visit) ==
    IF isdir(ds, t)
    THEN SelectSeq(visit, LAMBDA f : isfile(fs, f) /\ ~Excluded(f, excl))
    ELSE <<t>>

\* Manifest.prune_filenames: str.replace of dirname(target) + os.sep by ''.
prune_one(f, t) ==
    Replace(f, dirname(t) \o sep)

prune_filenames(fl, t) ==
    [i \in 1..Len(fl) |-> prune_one(fl[i], t)]

\* zip(file_list, hash_list)
zip(a, b) ==
    [i \in 1..(IF Len(a) < Len(b) THEN Len(a) ELSE Len(b)) |-> <<a[i], b[i]>>]

\* Manifest.get_manifest
get_manifest(fl, hl) ==
    sorted(zip(fl, hl))

\* A pool that returns the results in the order the workers finished
\* (as imap_unordered would).
pool_map_unordered(res, order) ==
    [i \in 1..Len(order) |-> res[order[i]]]

\* pool.map(self.get_hash, file_list) at its join: the results `res` (index of the
\* file -> digest) in the order of the input list, whatever the order `order` in
\* which the workers finished.
pool_map(res, order) ==
    [i \in 1..Len(order) |-> res[i]]

\* Manifest.get_hash_list run to its end.
get_hash_list(fs, fl) ==
    pool_map([i \in 1..Len(fl) |-> get_hash(fs, fl[i])], [i \in 1..Len(fl) |-> i])

\* Manifest.create over the walk order `visit`.
create_in_order(fs, ds, t, excl, visit) ==
    LET fl == get_file_list(fs, ds, t, excl, visit)
    IN  get_manifest(prune_filenames(fl, t), get_hash_list(fs, fl))

\* Manifest.create
create(fs, ds, t, excl) ==
    create_in_order(fs, ds, t, excl, SetToSeq(rglob_files(fs, t)))

----------------------------------------------------------------------------
(* Errors *)

NoError ==
    [type |-> "none", text |-> "", paths |-> {}]

\* ManifestError(text): `named` are the file paths the message names.
ManifestError(text, named) ==
    [type |-> "ManifestError", text |-> text, paths |-> named]

Running ==
    [kind |-> "running", type |-> "none", text |-> "", paths |-> {}]

Returned ==
    [kind |-> "returned", type |-> "none", text |-> "", paths |-> {}]

\* throw_error for an error of this program (no `details`): raise except_type in
\* quiet mode, otherwise print the message and exit().
throw_error(error, except_type, q) ==
    IF q
    THEN [kind |-> "raised", type |-> except_type, text |-> error.text, paths |-> error.paths]
    ELSE [kind |-> "exited", type |-> "SystemExit", text |-> error.text, paths |-> error.paths]

\* The first index in 1..n satisfying P, or 0.
FirstIndex(n, P(_)) ==
    IF \E i \in 1..n : P(i)
    THEN CHOOSE i \in 1..n : P(i) /\ \A j \in 1..(i-1) : ~P(j)
    ELSE 0

\* get_exception with the pairwise walk done before the count check.
get_exception_walk_first(self_manifest, tm) ==
    LET n == IF Len(tm) < Len(self_manifest) THEN Len(tm) ELSE Len(self_manifest)
    IN  IF FirstIndex(n, LAMBDA i : self_manifest[i][2] # tm[i][2]) # 0
        THEN ManifestError("Checksum mismatch", {})
        ELSE IF Len(tm) # Len(self_manifest)
        THEN ManifestError("Number of copied files do not match source", {})
        ELSE NoError

\* Manifest.get_exception: the error it raises, or NoError.
get_exception(self_manifest, tm) ==
    IF Len(tm) # Len(self_manifest)
    THEN ManifestError("Number of copied files do not match source", {})
    ELSE IF FirstIndex(Len(tm), LAMBDA i : self_manifest[i][2] # tm[i][2]) # 0
    THEN ManifestError("Checksum mismatch", {})
    ELSE NoError

\* Manifest.compare: how the call ends.
compare(self_manifest, tm, q) ==
    LET e == get_exception(self_manifest, tm)
    IN  IF e.type = "ManifestError" THEN throw_error(e, "ManifestError", q)
        ELSE Returned

sha256 ==
    <<"s", "h", "a", "2", "5", "6">>

md5 ==
    <<"m", "d", "5">>

NoBag ==
    [path |-> <<>>, entries |-> <<>>, info |-> "", oxum |-> <<0, 0>>]

\* The dict of set_unbag_paths before it is made.
NoPaths ==
    [unbag |-> <<>>, parent |-> <<>>, archivematica_metadata |-> <<>>,
     submission_docs |-> <<>>, bag_metadata |-> <<>>]

Failed(o) ==
    o.kind \in {"raised", "exited"}

----------------------------------------------------------------------------
(* Bounds and the values the inputs are drawn from *)

MaxEntries == 2

\* File contents: byte strings over {0, 1}.
Contents ==
    {<<>>, <<0>>, <<1>>}

ManPaths ==
    {<<"a">>, <<"b">>, <<"b", "/", "c">>}

Entries ==
    {<<p, hexdigest(c)>> : p \in ManPaths, c \in Contents}

\* The sorted manifests of at most MaxEntries entries.
Manifests ==
    {m \in UNION {[1..n -> Entries] : n \in 0..MaxEntries} : IsSorted(m)}

----------------------------------------------------------------------------
(* Manifest.compare applied to two sorted manifests *)

InitCompare ==
    /\ manifest \in Manifests
    /\ target_manifest \in Manifests
    /\ quiet \in BOOLEAN
    /\ pc = "compare"
    /\ outcome = Running
    /\ files = <<>> /\ dirs = {} /\ indirs = <<>> /\ outdir = <<>> /\ fast = FALSE
    /\ x = 0 /\ faults = 0 /\ target = <<>> /\ exclude = <<>> /\ processes = 1
    /\ file_list = <<>> /\ task = <<>> /\ next_task = 1 /\ done_order = <<>>
    /\ results = <<>> /\ written = <<>>
    /\ old_manifest = <<>> /\ bag = NoBag /\ alg = sha256
    /\ mode = "none" /\ inplace = FALSE /\ archivematica = FALSE
    /\ copy_bag_files = FALSE /\ update_manifest = FALSE /\ bag_path = <<>>
    /\ paths = NoPaths /\ tmp_dir = <<>> /\ bag_metadata_folder = <<>>
    /\ validated = FALSE /\ files0 = files /\ dirs0 = dirs

\* new_manifest.compare(old_manifest.manifest)
Compare ==
    /\ pc = "compare"
    /\ outcome' = compare(manifest, target_manifest, quiet)
    /\ pc' = "done"
    /\ UNCHANGED <<files, dirs, indirs, outdir, fast, quiet, x, manifest, target_manifest,
                   faults, target, exclude, processes, file_list, task, next_task,
                   done_order, results, written, old_manifest, bag, alg>>
    /\ UNCHANGED unbag_state

NextCompare ==
    Compare

SpecCompare ==
    InitCompare /\ [][NextCompare]_vars

\* The paths of a manifest, in order.
PathsOf(m) ==
    [i \in 1..Len(m) |-> m[i][1]]

\* The indices at which two manifests of equal length differ in digest.
DigestDiffs(m, t) ==
    {i \in 1..Len(m) : m[i][2] # t[i][2]}

\* C4: when the two manifests list the same paths and exactly one entry differs in
\* digest, compare fails with an error that names that entry's relative path and
\* no other path.
C4_MismatchNamesPath ==
    (/\ pc = "done"
     /\ PathsOf(manifest) = PathsOf(target_manifest)
     /\ Cardinality(DigestDiffs(manifest, target_manifest)) = 1)
    => /\ Failed(outcome)
       /\ outcome.paths = {manifest[i][1] : i \in DigestDiffs(manifest, target_manifest)}

\* C5: for two sorted manifests of equal length, compare fails whenever some index
\* differs in relative path or in digest.
C5_PathOrDigestDiffFails ==
    (/\ pc = "done"
     /\ Len(manifest) = Len(target_manifest)
     /\ \E i \in 1..Len(manifest) : manifest[i] # target_manifest[i])
    => Failed(outcome)

\* C6: when the two manifests differ in length, compare fails with the
\* count-mismatch error whatever the entries are, and the checksum-mismatch error of
\* the pairwise walk is raised only for manifests of equal length.
C6_CountCheckedFirst ==
    pc = "done" =>
        /\ Len(manifest) # Len(target_manifest)
            => /\ Failed(outcome)
               /\ outcome.text = "Number of copied files do not match source"
        /\ outcome.text = "Checksum mismatch" => Len(manifest) = Len(target_manifest)

\* C6 witness: manifests of different lengths whose common entries differ in digest
\* have been compared.
C6_Witness ==
    /\ pc = "done"
    /\ Len(manifest) # Len(target_manifest)
    /\ Len(manifest) > 0 /\ Len(target_manifest) > 0
    /\ manifest[1][2] # target_manifest[1][2]
    /\ outcome.text = "Number of copied files do not match source"

----------------------------------------------------------------------------
(* Manifest.create on a tree and on its copy, with the worker pool, then compare *)

MaxProcesses == 2

\* The roots a tree is placed under.
TreeRoots ==
    {<<"/", "a", "/", "b">>, <<"/", "c", "/", "b">>, <<"/", "b">>}

\* The relative paths a tree may hold.
TreeFiles ==
    {<<"a", "/", "c">>, <<"b">>, <<"c">>}

\* The trees: relative path -> content.
Trees ==
    UNION {[S -> Contents \ {<<>>}] : S \in SUBSET TreeFiles}

\* The files of tree t placed under root r.
Placed(t, r) ==
    [f \in {join(r, q) : q \in DOMAIN t} |->
        t[CHOOSE q \in DOMAIN t : join(r, q) = f]]

\* The directories that hold the paths P, and the roots R themselves.
DirsFor(P, R) ==
    R \cup UNION {Ancestors(f) : f \in P \cup R}

Workers ==
    1..processes

InitCreate ==
    /\ \E t \in Trees, r1 \in TreeRoots :
         \E r2 \in TreeRoots \ {r1} :
            /\ files = Placed(t, r1) @@ Placed(t, r2)
            /\ dirs = DirsFor(DOMAIN Placed(t, r1) \cup DOMAIN Placed(t, r2), {r1, r2})
            /\ indirs = <<r1, r2>>
            /\ target = r1
    /\ processes \in 1..MaxProcesses
    /\ quiet \in BOOLEAN
    /\ pc = "walk"
    /\ x = 0
    /\ manifest = <<>> /\ target_manifest = <<>>
    /\ outcome = Running
    /\ outdir = <<>> /\ fast = FALSE /\ faults = 0 /\ exclude = <<>>
    /\ file_list = <<>> /\ task = <<>> /\ next_task = 1 /\ done_order = <<>>
    /\ results = <<>> /\ written = <<>>
    /\ old_manifest = <<>> /\ bag = NoBag /\ alg = sha256
    /\ mode = "none" /\ inplace = FALSE /\ archivematica = FALSE
    /\ copy_bag_files = FALSE /\ update_manifest = FALSE /\ bag_path = <<>>
    /\ paths = NoPaths /\ tmp_dir = <<>> /\ bag_metadata_folder = <<>>
    /\ validated = FALSE /\ files0 = files /\ dirs0 = dirs

\* get_file_list: the walk visits the files in some order; the pool is started.
Walk ==
    /\ pc = "walk"
    /\ \E visit \in Orders(rglob_files(files, target)) :
         file_list' = get_file_list(files, dirs, target, exclude, visit)
    /\ task' = [w \in Workers |-> 0]
    /\ next_task' = 1
    /\ done_order' = <<>>
    /\ results' = <<>>
    /\ pc' = "hash"
    /\ UNCHANGED <<files, dirs, indirs, outdir, fast, quiet, x, manifest, target_manifest,
                   outcome, faults, target, exclude, processes, written, old_manifest,
                   bag, alg>>
    /\ UNCHANGED unbag_state

\* An idle worker takes the next file of the list.
Dispatch(w) ==
    /\ pc = "hash"
    /\ task[w] = 0
    /\ next_task <= Len(file_list)
    /\ task' = [task EXCEPT ![w] = next_task]
    /\ next_task' = next_task + 1
    /\ UNCHANGED <<files, dirs, pc, indirs, outdir, fast, quiet, x, manifest,
                   target_manifest, outcome, faults, target, exclude, processes,
                   file_list, done_order, results, written, old_manifest, bag, alg>>
    /\ UNCHANGED unbag_state

\* A worker finishes get_hash of its file; the digest is stored under the file's index.
Finish(w) ==
    /\ pc = "hash"
    /\ task[w] # 0
    /\ results' = (task[w] :> get_hash(files, file_list[task[w]])) @@ results
    /\ done_order' = Append(done_order, task[w])
    /\ task' = [task EXCEPT ![w] = 0]
    /\ UNCHANGED <<files, dirs, pc, indirs, outdir, fast, quiet, x, manifest,
                   target_manifest, outcome, faults, target, exclude, processes,
                   file_list, next_task, written, old_manifest, bag, alg>>
    /\ UNCHANGED unbag_state

\* The pool is joined; prune_filenames and get_manifest give the manifest. The
\* first manifest is that of the tree, the second that of its copy.
Join ==
    /\ pc = "hash"
    /\ Len(done_order) = Len(file_list)
    /\ LET m == get_manifest(prune_filenames(file_list, target),
                             pool_map(results, done_order))
       IN  IF x = 0
           THEN /\ manifest' = m
                /\ target' = indirs[2]
                /\ x' = 1
                /\ pc' = "walk"
                /\ UNCHANGED target_manifest
           ELSE /\ target_manifest' = m
                /\ pc' = "compare"
                /\ UNCHANGED <<manifest, target, x>>
    /\ file_list' = <<>>
    /\ task' = <<>>
    /\ next_task' = 1
    /\ done_order' = <<>>
    /\ results' = <<>>
    /\ UNCHANGED <<files, dirs, indirs, outdir, fast, quiet, outcome, faults, exclude,
                   processes, written, old_manifest, bag, alg>>
    /\ UNCHANGED unbag_state

NextCreate ==
    \/ Walk
    \/ \E w \in Workers : Dispatch(w)
    \/ \E w \in Workers : Finish(w)
    \/ Join
    \/ Compare

SpecCreate ==
    InitCreate /\ [][NextCreate]_vars

\* The entries a tree under root r must give: each file's pruned path with the
\* digest of that file.
OwnEntries(r) ==
    {<<prune_one(f, r), hexdigest(files[f])>> : f \in rglob_files(files, r)}

\* Manifest m is the manifest of the tree under r: sorted, one entry per file, each
\* path with the digest of its own file, and equal to the sequential result.
IsManifestOf(m, r) ==
    /\ IsSorted(m)
    /\ Len(m) = Cardinality(rglob_files(files, r))
    /\ \A f \in rglob_files(files, r) :
         Cardinality({i \in 1..Len(m) : m[i] = <<prune_one(f, r), hexdigest(files[f])>>})
           = Cardinality({g \in rglob_files(files, r) :
                 prune_one(g, r) = prune_one(f, r) /\ files[g] = files[f]})
    /\ m = create(files, dirs, r, <<>>)

\* C3: the manifest of a tree and the manifest of a byte-identical copy under
\* another root compare successfully.
C3_RoundTrip ==
    pc = "done" => outcome.kind = "returned"

\* C8: whatever the order of the walk, the number of workers and the order in which
\* they finish, the manifest that create builds pairs every path with the digest of
\* its own file and equals the manifest built sequentially.
C8_CreateDeterministic ==
    /\ (x = 1 \/ pc \in {"compare", "done"}) => IsManifestOf(manifest, indirs[1])
    /\ pc \in {"compare", "done"} => IsManifestOf(target_manifest, indirs[2])

\* C8 witness: a manifest of three files was built by two workers that finished in
\* an order other than the order of the list.
C8_Witness ==
    /\ pc = "hash"
    /\ x = 1
    /\ Len(manifest) = 3
    /\ processes > 1
    /\ Len(done_order) = 3
    /\ done_order # <<1, 2, 3>>
    /\ \E i \in 1..2 : EntryLess(<<prune_one(file_list[i+1], target), <<>>>>,
                                 <<prune_one(file_list[i], target), <<>>>>)

----------------------------------------------------------------------------
(* copy_files and the bagit library *)

\* The path of f, a path beneath src, once src is copied to dst.
Rebase(f, src, dst) ==
    join(dst, Drop(f, Len(join(src, <<>>))))

\* A copy of the tree that drops its structure: every file of src lands directly
\* in dst under its own name.
copytree_flat(fs, ds, src, dst) ==
    LET srcfiles == rglob_files(fs, src)
        copied   == [q \in {join(dst, basename(f)) : f \in srcfiles} |->
                        fs[CHOOSE f \in srcfiles : join(dst, basename(f)) = q]]
    IN  [files |-> copied @@ fs, dirs |-> ds \cup {dst}, error |-> FALSE]

\* copy_files(src, dst, 'recursive'): shutil.copytree(src, dst, dirs_exist_ok=True).
\* Gives the filesystem after the call and whether it raised. A directory that
\* cannot be made because a regular file has its name, and a file whose name a
\* directory has, are errors; copytree goes on with the rest and raises at its end.
copytree(fs, ds, src, dst) ==
    IF isfile(fs, dst)
    THEN [files |-> fs, dirs |-> ds, error |-> TRUE]
    ELSE LET srcfiles == rglob_files(fs, src)
             srcdirs  == {d \in ds : Under(d, src)}
             blocked(q) == \E a \in Ancestors(q) \cup {q} :
                              Under(a, dst) /\ isfile(fs, a)
             okdirs   == {d \in srcdirs : ~blocked(Rebase(d, src, dst))}
             okfiles  == {f \in srcfiles :
                             /\ ~blocked(dirname(Rebase(f, src, dst)))
                             /\ ~isdir(ds, Rebase(f, src, dst))}
             copied   == [q \in {Rebase(f, src, dst) : f \in okfiles} |->
                             fs[CHOOSE f \in okfiles : Rebase(f, src, dst) = q]]
         IN  [files |-> copied @@ fs,
              dirs  |-> ds \cup {dst} \cup {Rebase(d, src, dst) : d \in okdirs},
              error |-> okdirs # srcdirs \/ okfiles # srcfiles]

\* copy_files(src, dst, 'file'): shutil.copy2(src, dst); into dst when dst is a
\* directory, an error when the name to write is a directory.
copy2(fs, ds, src, dst) ==
    LET to == IF isdir(ds, dst) THEN join(dst, basename(src)) ELSE dst
    IN  IF isdir(ds, to)
        THEN [files |-> fs, dirs |-> ds, error |-> TRUE]
        ELSE [files |-> (to :> fs[src]) @@ fs, dirs |-> ds, error |-> FALSE]

\* copy_files(src, dest, copy_type) for the copy types of bag_files.
copy_files(fs, ds, src, dst, copy_type) ==
    IF copy_type = "recursive" THEN copytree(fs, ds, src, dst)
    ELSE copy2(fs, ds, src, dst)

data ==
    <<"d", "a", "t", "a">>

\* The tag files bagit writes at the top of a bag.
TagFiles ==
    {<<"b", "a", "g", "i", "t", ".", "t", "x", "t">>,
     <<"b", "a", "g", "-", "i", "n", "f", "o", ".", "t", "x", "t">>,
     <<"m", "a", "n", "i", "f", "e", "s", "t", "-", "s", "h", "a", "2", "5", "6",
       ".", "t", "x", "t">>}

\* The content of a tag file (not interpreted).
TagContent ==
    <<1, 1>>

BAG_INFO_CHECKSUM ==
    "checksum validation"

BAG_INFO_FAST ==
    "file number and size validation"

\* bagit.make_bag(bag_dir, bag_info=metadata): everything in bag_dir moves into
\* bag_dir/data, the tag files are written, and the bag records the digest of every
\* payload file under its path 'data/...' (and of the tag files under their names).
make_bag(fs, ds, bag_dir, info) ==
    LET payload  == rglob_files(fs, bag_dir)
        paydirs  == {d \in ds : Under(d, bag_dir)}
        datadir  == join(bag_dir, data)
        rest     == [f \in DOMAIN fs \ payload |-> fs[f]]
        moved    == [q \in {Rebase(f, bag_dir, datadir) : f \in payload} |->
                        fs[CHOOSE f \in payload : Rebase(f, bag_dir, datadir) = q]]
        tags     == [q \in {join(bag_dir, t) : t \in TagFiles} |-> TagContent]
        entries  == [e \in {Drop(q, Len(join(bag_dir, <<>>))) : q \in DOMAIN moved}
                           \cup TagFiles |->
                        IF e \in TagFiles THEN hexdigest(TagContent)
                        ELSE hexdigest(moved[join(bag_dir, e)])]
    IN  [files |-> tags @@ moved @@ rest,
         dirs  |-> (ds \ paydirs) \cup {datadir}
                      \cup {Rebase(d, bag_dir, datadir) : d \in paydirs},
         bag   |-> [path |-> bag_dir, entries |-> entries, info |-> info,
                    oxum |-> <<Sum([q \in DOMAIN moved |-> Len(moved[q])]),
                               Cardinality(DOMAIN moved)>>]]

\* BetterBag.read_bag_manifest
read_bag_manifest(b) ==
    LET payload == {e \in DOMAIN b.entries : StartsWith(e, data \o sep)}
    IN  sorted([i \in 1..Cardinality(payload) |->
                  LET e == SetToSeq(payload)[i]
                  IN  <<ReplaceFirst(e, data \o sep), b.entries[e]>>])

\* get_file_details(target, exclude): <<size, count>>, accumulated over the walk.
RECURSIVE walk_details(_, _, _)
walk_details(fs, visit, excl) ==
    IF visit = <<>> THEN <<0, 0>>
    ELSE LET r == walk_details(fs, Tail(visit), excl)
             f == Head(visit)
         IN  IF isfile(fs, f)
             THEN IF Len(excl) = 0
                  THEN <<r[1] + st_size(fs, f), r[2] + 1>>
                  ELSE IF ~Excluded(f, excl)
                       THEN <<r[1] + st_size(fs, f), r[2] + 1>>
                       ELSE r
             ELSE r

get_file_details(fs, ds, t, excl) ==
    IF isdir(ds, t) THEN walk_details(fs, SetToSeq(rglob_files(fs, t)), excl)
    ELSE IF isfile(fs, t) THEN <<st_size(fs, t), 1>>
    ELSE <<0, 0>>

\* save_for_archivematica with the prefix 'objects/' in place of '../objects/'.
archivematica_line_short_prefix(e) ==
    e[2] \o <<" ">> \o <<"o", "b", "j", "e", "c", "t", "s", "/">> \o e[1] \o <<"\n">>

\* The line save_for_archivematica writes for entry e:
\* x[0] = '../objects/' + x[0]; line = x[1] + ' ' + x[0] + '\n'
archivematica_line(e) ==
    e[2] \o <<" ">>
         \o (<<".", ".", "/", "o", "b", "j", "e", "c", "t", "s", "/">> \o e[1])
         \o <<"\n">>

RECURSIVE archivematica_text(_)
\* What the loop of save_for_archivematica writes, line after line.
archivematica_text(m) ==
    IF m = <<>> THEN <<>>
    ELSE archivematica_line(m[1]) \o archivematica_text(Tail(m))

\* The file save_for_archivematica opens: save_target + os.sep + 'checksum.' + alg
archivematica_file(save_target, a) ==
    save_target \o sep \o <<"c", "h", "e", "c", "k", "s", "u", "m", ".">> \o a

\* fast_compare with the file count left out of the test.
fast_compare_size_only(fs, ds, ind, outd, excl) ==
    IF get_file_details(fs, ds, ind, <<>>)[1] # get_file_details(fs, ds, outd, excl)[1]
    THEN ManifestError("Expected files and bytes, but found", {})
    ELSE NoError

\* fast_compare(indir, outdir, exclude): the error it raises, or NoError.
fast_compare(fs, ds, ind, outd, excl) ==
    LET i == get_file_details(fs, ds, ind, <<>>)
        o == get_file_details(fs, ds, outd, excl)
    IN  IF i[1] # o[1] \/ i[2] # o[2]
        THEN ManifestError("Expected files and bytes, but found", {})
        ELSE NoError

----------------------------------------------------------------------------
(* bag_files(indirs, outdir, alg, inplace=False, fast, quiet), sub_docs empty *)

MaxSources == 2

MaxFaults == 2

\* The source files of the runs: two directories named b under different parents,
\* a third directory, and two files named f under different parents.
WorldFiles ==
    (<<"/", "a", "/", "b", "/", "a", "/", "c">> :> <<0>>) @@
    (<<"/", "a", "/", "b", "/", "b">> :> <<1>>) @@
    (<<"/", "c", "/", "b", "/", "b">> :> <<0>>) @@
    (<<"/", "c", "/", "d", "/", "b">> :> <<>>) @@
    (<<"/", "a", "/", "f">> :> <<1>>) @@
    (<<"/", "c", "/", "f">> :> <<0>>)

WorldDirs ==
    UNION {Ancestors(f) : f \in DOMAIN WorldFiles}

\* What may be given as a source: the directories below the top level and the files.
Sources ==
    {d \in WorldDirs : Len(dirname(d)) > 1}
        \cup {<<"/", "a", "/", "f">>, <<"/", "c", "/", "f">>,
              <<"/", "c", "/", "d", "/", "b">>}

OutDir ==
    <<"/", "o">>

InitBag ==
    /\ files = WorldFiles
    /\ dirs = WorldDirs
    /\ indirs \in {l \in UNION {[1..n -> Sources] : n \in 1..MaxSources} :
                     \A i, j \in 1..Len(l) : i # j => l[i] # l[j]}
    /\ outdir = OutDir
    /\ fast \in BOOLEAN
    /\ quiet \in BOOLEAN
    /\ pc = "mkdir"
    /\ x = 0
    /\ old_manifest = <<>>
    /\ manifest = <<>> /\ target_manifest = <<>>
    /\ outcome = Running
    /\ bag = NoBag
    /\ faults = 0 /\ target = <<>> /\ exclude = <<>> /\ processes = 1
    /\ file_list = <<>> /\ task = <<>> /\ next_task = 1 /\ done_order = <<>>
    /\ results = <<>> /\ written = <<>> /\ alg = sha256
    /\ mode = "bag" /\ inplace = FALSE /\ archivematica = FALSE
    /\ copy_bag_files = FALSE /\ update_manifest = FALSE /\ bag_path = <<>>
    /\ paths = NoPaths /\ tmp_dir = <<>> /\ bag_metadata_folder = <<>>
    /\ validated = FALSE /\ files0 = files /\ dirs0 = dirs

\* make target dir: os.mkdir(outdir), whose errors are not caught.
BagMkdir ==
    /\ pc = "mkdir"
    /\ IF isdir(dirs, outdir) \/ isfile(files, outdir)
       THEN /\ outcome' = [kind |-> "raised", type |-> "FileExistsError",
                           text |-> "", paths |-> {outdir}]
            /\ pc' = "aborted"
            /\ UNCHANGED dirs
       ELSE IF ~(dirname(outdir) = sep \/ isdir(dirs, dirname(outdir)))
       THEN /\ outcome' = [kind |-> "raised", type |-> "FileNotFoundError",
                           text |-> "", paths |-> {outdir}]
            /\ pc' = "aborted"
            /\ UNCHANGED dirs
       ELSE /\ dirs' = dirs \cup {outdir}
            /\ pc' = "loop"
            /\ UNCHANGED outcome
    /\ UNCHANGED <<files, indirs, outdir, fast, quiet, x, manifest, target_manifest,
                   faults, target, exclude, processes, file_list, task, next_task,
                   done_order, results, written, old_manifest, bag, alg>>
    /\ UNCHANGED unbag_state

\* add checksums of dir/file to master manifest (not in fast mode)
BagAnalyze ==
    /\ pc = "loop"
    /\ x < Len(indirs)
    /\ ~fast
    /\ old_manifest' = old_manifest \o create(files, dirs, indirs[x+1], <<>>)
    /\ pc' = "copy"
    /\ UNCHANGED <<files, dirs, indirs, outdir, fast, quiet, x, manifest, target_manifest,
                   outcome, faults, target, exclude, processes, file_list, task,
                   next_task, done_order, results, written, bag, alg>>
    /\ UNCHANGED unbag_state

\* copy source files to destination dir
BagCopy ==
    /\ \/ pc = "copy"
       \/ pc = "loop" /\ x < Len(indirs) /\ fast
    /\ LET src == indirs[x+1]
           r   == IF isdir(dirs, src)
                  THEN copy_files(files, dirs, src, join(outdir, basename(src)),
                                  "recursive")
                  ELSE copy_files(files, dirs, src, outdir, "file")
       IN  /\ files' = r.files
           /\ dirs' = r.dirs
           /\ IF r.error
              THEN /\ outcome' = throw_error([text |-> "copy failed", paths |-> {}],
                                             "CopyError", quiet)
                   /\ pc' = "aborted"
                   /\ UNCHANGED target
              ELSE /\ target' = join(outdir, basename(src))    \* compare_path
                   /\ pc' = "copied"
                   /\ UNCHANGED outcome
    /\ UNCHANGED <<indirs, outdir, fast, quiet, x, manifest, target_manifest, faults,
                   exclude, processes, file_list, task, next_task, done_order, results,
                   written, old_manifest, bag, alg>>
    /\ UNCHANGED unbag_state

\* The storage fails: a file of the destination does not hold the bytes that were
\* written to it, or is not there at all.
CopyFault ==
    /\ pc = "copied"
    /\ faults < MaxFaults
    /\ \E f \in rglob_files(files, outdir) :
         \/ \E c \in Contents \ {files[f]} : files' = [files EXCEPT ![f] = c]
         \/ files' = [g \in DOMAIN files \ {f} |-> files[g]]
    /\ faults' = faults + 1
    /\ UNCHANGED <<dirs, pc, indirs, outdir, fast, quiet, x, manifest, target_manifest,
                   outcome, target, exclude, processes, file_list, task, next_task,
                   done_order, results, written, old_manifest, bag, alg>>
    /\ UNCHANGED unbag_state

\* fast compare of the source with what was copied from it
BagFastCompare ==
    /\ pc = "copied"
    /\ fast
    /\ LET e == fast_compare(files, dirs, indirs[x+1], target, <<>>)
       IN  IF e.type = "ManifestError"
           THEN /\ outcome' = throw_error(e, "ManifestError", quiet)
                /\ pc' = "aborted"
                /\ UNCHANGED x
           ELSE /\ x' = x + 1
                /\ pc' = "loop"
                /\ UNCHANGED outcome
    /\ UNCHANGED <<files, dirs, indirs, outdir, fast, quiet, manifest, target_manifest,
                   faults, target, exclude, processes, file_list, task, next_task,
                   done_order, results, written, old_manifest, bag, alg>>
    /\ UNCHANGED unbag_state

\* The loop goes on to the next source (not in fast mode).
BagNextSource ==
    /\ pc = "copied"
    /\ ~fast
    /\ x' = x + 1
    /\ pc' = "loop"
    /\ UNCHANGED <<files, dirs, indirs, outdir, fast, quiet, manifest, target_manifest,
                   outcome, faults, target, exclude, processes, file_list, task,
                   next_task, done_order, results, written, old_manifest, bag, alg>>
    /\ UNCHANGED unbag_state

\* bag copied files: bagit.make_bag(outdir, bag_info=metadata), BetterBag(bag.path)
BagMakeBag ==
    /\ pc = "loop"
    /\ x = Len(indirs)
    /\ LET r == make_bag(files, dirs, outdir,
                         IF fast THEN BAG_INFO_FAST ELSE BAG_INFO_CHECKSUM)
       IN  /\ files' = r.files
           /\ dirs' = r.dirs
           /\ bag' = r.bag
    /\ pc' = IF fast THEN "return" ELSE "verify"
    /\ UNCHANGED <<indirs, outdir, fast, quiet, x, manifest, target_manifest, outcome,
                   faults, target, exclude, processes, file_list, task, next_task,
                   done_order, results, written, old_manifest, alg>>
    /\ UNCHANGED unbag_state

\* checksum validating bag copies: old_manifest.manifest.sort(), the new manifest
\* read from the bag, new_manifest.compare(old_manifest.manifest)
BagVerify ==
    /\ pc = "verify"
    /\ old_manifest' = sorted(old_manifest)
    /\ manifest' = read_bag_manifest(bag)
    /\ target_manifest' = old_manifest'
    /\ LET o == compare(manifest', target_manifest', quiet)
       IN  IF Failed(o)
           THEN outcome' = o /\ pc' = "aborted"
           ELSE UNCHANGED outcome /\ pc' = "return"
    /\ UNCHANGED <<files, dirs, indirs, outdir, fast, quiet, x, faults, target, exclude,
                   processes, file_list, task, next_task, done_order, results, written,
                   bag, alg>>
    /\ UNCHANGED unbag_state

\* return better_bag
BagReturn ==
    /\ pc = "return"
    /\ outcome' = Returned
    /\ pc' = "done"
    /\ UNCHANGED <<files, dirs, indirs, outdir, fast, quiet, x, manifest, target_manifest,
                   faults, target, exclude, processes, file_list, task, next_task,
                   done_order, results, written, old_manifest, bag, alg>>
    /\ UNCHANGED unbag_state

NextBag ==
    \/ BagMkdir
    \/ BagAnalyze
    \/ BagCopy
    \/ CopyFault
    \/ BagFastCompare
    \/ BagNextSource
    \/ BagMakeBag
    \/ BagVerify
    \/ BagReturn

SpecBag ==
    InitBag /\ [][NextBag]_vars

\* The regular files of source s: the files beneath a directory, or the file itself.
SourceFiles(s) ==
    IF isdir(WorldDirs, s) THEN rglob_files(WorldFiles, s) ELSE {s}

\* The relative path of file f of source s: relative to the parent of s.
RelPath(f, s) ==
    Drop(f, Len(join(dirname(s), <<>>)))

\* The regular files of the payload of the bag at outdir.
Payload ==
    rglob_files(files, join(outdir, data))

\* C1: a run with full verification returns successfully only if every regular file
\* of every source has a counterpart in the payload of the bag with the same
\* relative path and the same digest.
C1_SuccessMeansFidelity ==
    (pc = "done" /\ ~fast /\ outcome.kind = "returned") =>
        \A i \in 1..Len(indirs) : \A f \in SourceFiles(indirs[i]) :
            LET q == join(join(outdir, data), RelPath(f, indirs[i]))
            IN  /\ isfile(files, q)
                /\ hexdigest(files[q]) = hexdigest(WorldFiles[f])

\* C2: a run with fast verification returns successfully only if the number of
\* regular files and the total size of the destination equal the sums of the file
\* counts and sizes of the sources.
C2_FastSuccessMeansAggregate ==
    (pc = "done" /\ fast /\ outcome.kind = "returned") =>
        /\ Cardinality(Payload)
             = Sum([i \in 1..Len(indirs) |-> Cardinality(SourceFiles(indirs[i]))])
        /\ Sum([f \in Payload |-> Len(files[f])])
             = Sum([i \in 1..Len(indirs) |->
                      Sum([f \in SourceFiles(indirs[i]) |-> Len(WorldFiles[f])])])

DistinctPaths(m) ==
    \A i, j \in 1..Len(m) : i # j => m[i][1] # m[j][1]

\* C9: every manifest the program builds has pairwise distinct relative paths, the
\* pre-copy manifest accumulated by bag_files included.
C9_UniquePaths ==
    /\ DistinctPaths(old_manifest)
    /\ DistinctPaths(manifest)
    /\ DistinctPaths(target_manifest)

DistinctBasenames ==
    \A i, j \in 1..Len(indirs) : i # j => basename(indirs[i]) # basename(indirs[j])

\* The sources whose copy has been made: the first x of them, and the one being
\* worked on once its copy is done.
CopiedSources ==
    IF pc = "copied" THEN 1..(x + 1) ELSE 1..x

\* C11: bag-to-target with full verification over sources with pairwise distinct
\* basenames, on storage that keeps what is written: as long as the destination has
\* not been packaged, every file of every copied source is at <out>/<its path
\* relative to the parent of the source> with the bytes of the source (a directory d
\* at <out>/<basename(d)> with its structure, a single file f at
\* <out>/<basename(f)>), and once the verification has run the pre-copy manifest
\* and the post-copy manifest have the same number of entries.
C11_CopyLayoutAndCount ==
    (mode = "bag" /\ ~fast /\ faults = 0 /\ DistinctBasenames) =>
        /\ (bag = NoBag /\ pc \in {"loop", "copy", "copied"}) =>
              \A i \in CopiedSources : \A f \in SourceFiles(indirs[i]) :
                  /\ isfile(files, join(outdir, RelPath(f, indirs[i])))
                  /\ files[join(outdir, RelPath(f, indirs[i]))] = WorldFiles[f]
        /\ (bag # NoBag /\ pc \in {"return", "done", "aborted"}) =>
              Len(manifest) = Len(old_manifest)

\* C11 witness: a run over a directory with a subdirectory and a single file, with
\* distinct basenames, has copied both and verified three entries against three.
C11_Witness ==
    /\ mode = "bag" /\ ~fast /\ faults = 0 /\ DistinctBasenames
    /\ bag # NoBag /\ pc \in {"return", "done", "aborted"}
    /\ \E i, j \in 1..Len(indirs) :
         /\ isdir(WorldDirs, indirs[i])
         /\ \E f \in SourceFiles(indirs[i]) : dirname(f) # indirs[i]
         /\ ~isdir(WorldDirs, indirs[j])
    /\ Len(old_manifest) = 3
    /\ Len(manifest) = 3

\* C17: when a run has ended, the fixity check type on disk is 'file number and
\* size validation' whenever fast verification was used, and 'checksum validation'
\* is on disk (in bag-info.txt of the bag made, in unbag.txt) only when the full
\* comparison of the run has been executed and has succeeded.
C17_FixityTypeTruthful ==
    /\ (mode = "bag" /\ bag # NoBag /\ pc \in {"aborted", "done"}) =>
          /\ fast => bag.info = BAG_INFO_FAST
          /\ bag.info = BAG_INFO_CHECKSUM => (~fast /\ outcome.kind = "returned")
    /\ mode = "unbag" =>
          \A f \in DOMAIN written :
              basename(f) = <<"u", "n", "b", "a", "g", ".", "t", "x", "t">> =>
                  /\ fast => written[f].fixity = BAG_INFO_FAST
                  /\ written[f].fixity = BAG_INFO_CHECKSUM =>
                        (~fast /\ pc \in {"end", "done"})

\* C18: with full verification no source is hashed once a file of any source has
\* been copied to the destination.
C18_HashAllBeforeCopy ==
    [][(mode = "bag" /\ ~fast /\ pc = "loop" /\ old_manifest' # old_manifest) =>
          rglob_files(files, outdir) = {}]_vars

\* C19: make_bag has been invoked on the destination only after the verification
\* of the copies of the run has succeeded: in fast mode after the fast comparison of
\* every source, in full mode after the comparison of the manifests.
C19_PackagingAfterVerification ==
    (mode = "bag" /\ bag # NoBag) =>
        IF fast THEN x = Len(indirs) ELSE pc \in {"return", "done"}

----------------------------------------------------------------------------
(* fast_compare(indir, outdir, exclude) on two trees *)

FastInFiles ==
    {<<"/", "s", "/", "x">>, <<"/", "s", "/", "y">>}

FastOutFiles ==
    {<<"/", "r", "/", "x">>, <<"/", "r", "/", "y">>,
     <<"/", "r", "/", "d", "a", "t", "a", "/", "x">>}

InitFast ==
    /\ \E S \in SUBSET (FastInFiles \cup FastOutFiles) :
         /\ files \in [S -> Contents]
         /\ dirs = DirsFor(S, {<<"/", "s">>, <<"/", "r">>})
    /\ target \in {<<"/", "s">>, <<"/", "s", "/", "x">>}
    /\ outdir \in {<<"/", "r">>, <<"/", "r", "/", "x">>}
    /\ exclude \in {<<>>, << <<"/", "r", "/", "d", "a", "t", "a">> >>}
    /\ pc = "fast_compare"
    /\ outcome = Running
    /\ fast = TRUE /\ quiet = TRUE
    /\ indirs = <<>> /\ x = 0 /\ manifest = <<>> /\ target_manifest = <<>>
    /\ faults = 0 /\ processes = 1
    /\ file_list = <<>> /\ task = <<>> /\ next_task = 1 /\ done_order = <<>>
    /\ results = <<>> /\ written = <<>>
    /\ old_manifest = <<>> /\ bag = NoBag /\ alg = sha256
    /\ mode = "none" /\ inplace = FALSE /\ archivematica = FALSE
    /\ copy_bag_files = FALSE /\ update_manifest = FALSE /\ bag_path = <<>>
    /\ paths = NoPaths /\ tmp_dir = <<>> /\ bag_metadata_folder = <<>>
    /\ validated = FALSE /\ files0 = files /\ dirs0 = dirs

\* fast_compare(target, outdir, exclude=exclude)
FastCompare ==
    /\ pc = "fast_compare"
    /\ LET e == fast_compare(files, dirs, target, outdir, exclude)
       IN  outcome' = IF e.type = "ManifestError"
                      THEN [kind |-> "raised", type |-> e.type, text |-> e.text,
                            paths |-> e.paths]
                      ELSE Returned
    /\ pc' = "done"
    /\ UNCHANGED <<files, dirs, indirs, outdir, fast, quiet, x, manifest, target_manifest,
                   faults, target, exclude, processes, file_list, task, next_task,
                   done_order, results, written, old_manifest, bag, alg>>
    /\ UNCHANGED unbag_state

NextFast ==
    FastCompare

SpecFast ==
    InitFast /\ [][NextFast]_vars

\* The regular files that count for tree t under the exclusion list excl.
Counted(t, excl) ==
    IF isdir(dirs, t) THEN {f \in rglob_files(files, t) : ~Excluded(f, excl)}
    ELSE IF isfile(files, t) THEN {t}
    ELSE {}

\* The pair (number of regular files, total size) of a set of files.
Aggregate(S) ==
    <<Cardinality(S), Sum([f \in S |-> Len(files[f])])>>

----------------------------------------------------------------------------
(* Manifest.save_for_archivematica(save_target) *)

InitArch ==
    /\ manifest \in Manifests
    /\ alg \in {sha256, md5}
    /\ target = <<"/", "m">>
    /\ dirs = {<<"/", "m">>}
    /\ pc = "save"
    /\ written = <<>>
    /\ outcome = Running
    /\ files = <<>> /\ indirs = <<>> /\ outdir = <<>> /\ fast = FALSE /\ quiet = TRUE
    /\ x = 0 /\ target_manifest = <<>> /\ faults = 0 /\ exclude = <<>>
    /\ processes = 1 /\ file_list = <<>> /\ task = <<>> /\ next_task = 1
    /\ done_order = <<>> /\ results = <<>> /\ old_manifest = <<>> /\ bag = NoBag
    /\ mode = "none" /\ inplace = FALSE /\ archivematica = FALSE
    /\ copy_bag_files = FALSE /\ update_manifest = FALSE /\ bag_path = <<>>
    /\ paths = NoPaths /\ tmp_dir = <<>> /\ bag_metadata_folder = <<>>
    /\ validated = FALSE /\ files0 = files /\ dirs0 = dirs

\* old_manifest.save_for_archivematica(target)
SaveForArchivematica ==
    /\ pc = "save"
    /\ written' = (archivematica_file(target, alg) :> archivematica_text(manifest))
                      @@ written
    /\ outcome' = Returned
    /\ pc' = "done"
    /\ UNCHANGED <<files, dirs, indirs, outdir, fast, quiet, x, manifest, target_manifest,
                   faults, target, exclude, processes, file_list, task, next_task,
                   done_order, results, old_manifest, bag, alg>>
    /\ UNCHANGED unbag_state

NextArch ==
    SaveForArchivematica

SpecArch ==
    InitArch /\ [][NextArch]_vars

RECURSIVE SplitLines(_)
\* The lines of a text, each without the newline that ends it; what follows the
\* last newline, if anything, is a last line.
SplitLines(t) ==
    IF t = <<>> THEN <<>>
    ELSE IF \E i \in 1..Len(t) : t[i] = "\n"
    THEN LET n == CHOOSE i \in 1..Len(t) : t[i] = "\n" /\ \A j \in 1..(i-1) : t[j] # "\n"
         IN  <<SubSeq(t, 1, n - 1)>> \o SplitLines(Drop(t, n))
    ELSE <<t>>

ChecksumFile ==
    written[archivematica_file(target, alg)]

\* C10: the file written holds one line per manifest entry, in manifest order, each
\* '<digest> ../objects/<relative path>' ended by a newline.
C10_ArchivematicaLines ==
    pc = "done" =>
        /\ DOMAIN written = {archivematica_file(target, alg)}
        /\ Len(SplitLines(ChecksumFile)) = Len(manifest)
        /\ ChecksumFile # <<>> => ChecksumFile[Len(ChecksumFile)] = "\n"
        /\ \A i \in 1..Len(manifest) :
             SplitLines(ChecksumFile)[i]
               = manifest[i][2] \o <<" ", ".", ".", "/", "o", "b", "j", "e", "c", "t", "s", "/">>
                                \o manifest[i][1]

\* C10 witness: a manifest of two entries, one of them in a subdirectory, was saved.
C10_Witness ==
    /\ pc = "done"
    /\ Len(manifest) = 2
    /\ manifest[2][1] = <<"b", "/", "c">>
    /\ Len(SplitLines(ChecksumFile)) = 2

----------------------------------------------------------------------------
(* The filesystem calls of the unbag, validate and update modes *)

\* os.mkdir(p): the directories after the call and the error it raises.
mkdir(fs, ds, p) ==
    IF isdir(ds, p) \/ isfile(fs, p)
    THEN [dirs |-> ds, error |-> "FileExistsError"]
    ELSE IF dirname(p) # sep /\ ~isdir(ds, dirname(p))
    THEN [dirs |-> ds, error |-> "FileNotFoundError"]
    ELSE [dirs |-> ds \cup {p}, error |-> "none"]

RECURSIVE mkdirs(_, _, _)
\* A run of os.mkdir calls inside one try: the calls are made in order and the
\* first error ends the run, the directories made before it staying.
mkdirs(fs, ds, ps) ==
    IF ps = <<>> THEN [dirs |-> ds, error |-> "none", path |-> <<>>]
    ELSE LET r == mkdir(fs, ds, Head(ps))
         IN  IF r.error # "none"
             THEN [dirs |-> ds, error |-> r.error, path |-> Head(ps)]
             ELSE mkdirs(fs, r.dirs, Tail(ps))

\* sorted(Path(src).glob('*')) filtered by os.path.isfile: the regular files directly
\* in src, in the order of their names.
glob_files(fs, src) ==
    LET top == {f \in DOMAIN fs : dirname(f) = src}
        s   == sorted([i \in 1..Cardinality(top) |-> <<SetToSeq(top)[i], <<>>>>])
    IN  [i \in 1..Len(s) |-> s[i][1]]

RECURSIVE copy_flat(_, _, _, _)
\* copy_files(src, dest, 'flat'): shutil.copy2 of each of the files `list` into the
\* directory dst, up to the first error.
copy_flat(fs, ds, list, dst) ==
    IF list = <<>> THEN [files |-> fs, dirs |-> ds, error |-> FALSE]
    ELSE LET r == copy2(fs, ds, Head(list), dst)
         IN  IF r.error THEN r ELSE copy_flat(r.files, r.dirs, Tail(list), dst)

RECURSIVE move_flat(_, _, _, _)
\* copy_files(src, dest, 'move'): shutil.move of each of the files `list` into the
\* directory dst; a name already there is an error (shutil.Error).
move_flat(fs, ds, list, dst) ==
    IF list = <<>> THEN [files |-> fs, dirs |-> ds, error |-> FALSE]
    ELSE LET f  == Head(list)
             to == join(dst, basename(f))
         IN  IF isfile(fs, to) \/ isdir(ds, to)
             THEN [files |-> fs, dirs |-> ds, error |-> TRUE]
             ELSE move_flat((to :> fs[f]) @@ [g \in DOMAIN fs \ {f} |-> fs[g]],
                            ds, Tail(list), dst)

\* shutil.rmtree(p)
rmtree(fs, ds, p) ==
    [files |-> [f \in {g \in DOMAIN fs : ~Under(g, p)} |-> fs[f]],
     dirs  |-> {d \in ds : d # p /\ ~Under(d, p)}]

\* The suffix time.strftime(TIME_FMT_METADIR, ...) gives ('_%Hh%Mm%Ss'), at the time
\* of the run.
TIME_FMT_METADIR ==
    <<"_", "0", "0", "h", "0", "0", "m", "0", "0", "s">>

tmp ==
    <<"t", "m", "p">>

objects ==
    <<"o", "b", "j", "e", "c", "t", "s">>

metadata ==
    <<"m", "e", "t", "a", "d", "a", "t", "a">>

submissionDocumentation ==
    <<"s", "u", "b", "m", "i", "s", "s", "i", "o", "n", "D", "o", "c", "u", "m", "e", "n", "t", "a", "t", "i", "o", "n">>

bagfiles ==
    <<"_", "b", "a", "g", "f", "i", "l", "e", "s">>

\* BetterBag.data_path
data_path ==
    join(bag_path, data)

\* BetterBag.bag_name
bag_name ==
    basename(bag_path)

\* BetterBag.set_unbag_paths(outdir, archivematica, inplace)
set_unbag_paths(out, arch, inpl) ==
    LET unbag_path_init == IF inpl THEN bag_path ELSE join(out, bag_name)
    IN  IF arch
        THEN [unbag |-> join(unbag_path_init, objects),
              parent |-> unbag_path_init,
              archivematica_metadata |-> join(unbag_path_init, metadata),
              submission_docs |-> join(join(unbag_path_init, metadata),
                                       submissionDocumentation),
              bag_metadata |-> join(join(join(unbag_path_init, metadata),
                                         submissionDocumentation),
                                    bag_name \o bagfiles)]
        ELSE [unbag |-> unbag_path_init,
              parent |-> <<>>,
              archivematica_metadata |-> <<>>,
              submission_docs |-> <<>>,
              bag_metadata |-> join(unbag_path_init, bag_name \o bagfiles)]

\* The os.mkdir calls of make_unbag_dirs, in their order.
make_unbag_dirs(arch, ps, inpl) ==
    IF arch
    THEN (IF ~inpl THEN <<ps.parent>> ELSE <<>>)
            \o <<ps.unbag, ps.archivematica_metadata, ps.submission_docs>>
    ELSE IF ~inpl THEN <<ps.unbag>> ELSE <<>>

\* bagit's Bag.validate(fast): with fast only the Payload-Oxum (total size and number
\* of the payload files) is checked; otherwise also that every recorded file is
\* there with its recorded digest and that the payload has no unrecorded file.
validate(fs, b, fst) ==
    LET payload == rglob_files(fs, join(b.path, data))
        oxum    == <<Sum([f \in payload |-> Len(fs[f])]), Cardinality(payload)>>
    IN  /\ oxum = b.oxum
        /\ ~fst =>
             /\ \A e \in DOMAIN b.entries :
                  /\ isfile(fs, join(b.path, e))
                  /\ hexdigest(fs[join(b.path, e)]) = b.entries[e]
             /\ \A f \in payload : Drop(f, Len(join(b.path, <<>>))) \in DOMAIN b.entries

\* The exit status of the process for an outcome: an uncaught exception ends the
\* interpreter with status 1, exit() without an argument and the normal end of Main
\* with status 0.
exit_status(o) ==
    IF o.kind = "raised" THEN 1 ELSE 0

\* get_end_text(mode, inplace, indir, outdir, fast)
get_end_text(md, inpl, indir, out, fst) ==
    IF md = "bag"
    THEN IF inpl THEN [text |-> "bag saved inplace at", paths |-> {indir}]
         ELSE [text |-> "bag saved to", paths |-> {out}]
    ELSE IF md = "unbag"
    THEN IF inpl THEN [text |-> "files unbagged in place at", paths |-> {indir}]
         ELSE [text |-> "files unbagged to", paths |-> {join(out, basename(indir))}]
    ELSE IF md = "validate"
    THEN IF fst THEN [text |-> "bag is valid! (fast scan)", paths |-> {}]
         ELSE [text |-> "bag is valid!", paths |-> {}]
    ELSE [text |-> "updated bag:", paths |-> {indir}]

----------------------------------------------------------------------------
(* Main in the modes unbag, validate and update, on a bag at /r/g *)

MaxUnbagFaults == 1

BagPath ==
    <<"/", "r", "/", "g">>

\* The payloads of the bag (path beneath data/ -> content): a file whose name begins
\* with the letters 'data', a top-level directory named 'data' (alone, and beside a
\* file with the name of the file it holds), and a plain tree.
Payloads ==
    {(<<"x">> :> <<0>>) @@ (<<"d", "a", "t", "a", "x">> :> <<1>>),
     (<<"d", "a", "t", "a", "/", "x">> :> <<1>>),
     (<<"x">> :> <<0>>) @@ (<<"d", "a", "t", "a", "/", "x">> :> <<1>>),
     (<<"x">> :> <<0>>) @@ (<<"s", "/", "y">> :> <<1>>)}

\* The directories that may already be in the bag's root beside data/: a tag
\* directory named 'metadata', or one with the name the staging directory will get.
ExtraDirs ==
    {join(BagPath, metadata), join(BagPath, tmp \o TIME_FMT_METADIR)}

UnbagOut ==
    <<"/", "t">>

\* The bag that bagit made of payload P at BagPath: its files, directories and
\* records.
BagOf(P) ==
    make_bag([f \in {join(BagPath, rel) : rel \in DOMAIN P} |->
                 P[CHOOSE rel \in DOMAIN P : join(BagPath, rel) = f]],
             {BagPath} \cup Ancestors(BagPath)
                 \cup UNION {Ancestors(join(BagPath, rel)) : rel \in DOMAIN P},
             BagPath, BAG_INFO_CHECKSUM)

\* The values no action of these modes changes.
unbag_options ==
    <<mode, inplace, archivematica, copy_bag_files, update_manifest, fast, quiet, alg,
      indirs, outdir, bag_path, files0, dirs0>>

\* The state of Manifest.create's pool and of the loop of bag_files.
pool_state ==
    <<x, target, processes, file_list, task, next_task, done_order, results>>

InitUnbag ==
    /\ mode \in {"unbag", "validate", "update"}
    /\ inplace \in BOOLEAN
    /\ archivematica \in BOOLEAN
    /\ copy_bag_files \in BOOLEAN
    /\ update_manifest \in BOOLEAN
    /\ fast \in BOOLEAN
    /\ quiet \in BOOLEAN
    /\ mode # "unbag" => ~inplace /\ ~archivematica /\ ~copy_bag_files
    /\ mode # "update" => ~update_manifest
    /\ bag_path = BagPath
    /\ indirs = <<BagPath>>
    /\ outdir \in IF mode = "unbag" /\ ~inplace THEN {UnbagOut, BagPath} ELSE {<<>>}
    /\ \E P \in Payloads :
         LET b == BagOf(P)
         IN  /\ bag = b.bag
             /\ \E extra \in {E \in SUBSET ExtraDirs : Cardinality(E) <= 1} :
                \E out \in IF outdir = UnbagOut
                           THEN {{}, {UnbagOut}, {UnbagOut, join(UnbagOut, bag_name)}}
                           ELSE {{}} :
                  dirs = b.dirs \cup extra \cup out
             \* the bag as it was made, or with one payload file changed since
             /\ \/ files = b.files
                \/ \E f \in rglob_files(b.files, data_path) :
                   \E c \in Contents \ {b.files[f]} :
                     files = [b.files EXCEPT ![f] = c]
    /\ files0 = files
    /\ dirs0 = dirs
    /\ pc = "check_paths"
    /\ outcome = Running
    /\ paths = NoPaths /\ tmp_dir = <<>> /\ bag_metadata_folder = <<>>
    /\ validated = FALSE
    /\ manifest = <<>> /\ target_manifest = <<>> /\ old_manifest = <<>>
    /\ exclude = <<>> /\ written = <<>> /\ faults = 0 /\ alg = sha256
    /\ x = 0 /\ target = <<>> /\ processes = 1
    /\ file_list = <<>> /\ task = <<>> /\ next_task = 1 /\ done_order = <<>>
    /\ results = <<>>

\* An OSError of a filesystem call on path p.
OSError(p) ==
    [text |-> "", paths |-> {p}]

\* Main: check_paths(indirs, outdir, mode) and its except clauses
MainCheckPaths ==
    /\ pc = "check_paths"
    /\ IF ~isfile(files, indirs[1]) /\ ~isdir(dirs, indirs[1])
       THEN /\ outcome' = throw_error(OSError(indirs[1]), "FileNotFoundError", quiet)
            /\ pc' = "aborted"
       ELSE IF outdir # <<>> /\ mode = "unbag" /\ ~isdir(dirs, outdir)
       THEN /\ outcome' = throw_error(OSError(outdir), "FileNotFoundError", quiet)
            /\ pc' = "aborted"
       ELSE IF /\ outdir # <<>> /\ mode = "unbag"
               /\ isdir(dirs, join(outdir, basename(indirs[1])))
       THEN /\ outcome' = throw_error(OSError(join(outdir, basename(indirs[1]))),
                                      "FileExistsError", quiet)
            /\ pc' = "aborted"
       ELSE /\ pc' = "open_bag"
            /\ UNCHANGED outcome
    /\ UNCHANGED <<files, dirs, manifest, target_manifest, old_manifest, exclude,
                   written, faults, bag, paths, tmp_dir, bag_metadata_folder, validated>>
    /\ UNCHANGED <<unbag_options, pool_state>>

\* BetterBag(indirs[0], ...): open_bag
MainOpenBag ==
    /\ pc = "open_bag"
    /\ IF ~isdir(dirs, bag_path) \/ ~isfile(files, join(bag_path, <<"b", "a", "g", "i", "t", ".", "t", "x", "t">>))
       THEN /\ outcome' = throw_error(OSError(bag_path), "FileNotFoundError", quiet)
            /\ pc' = "aborted"
       ELSE /\ pc' = IF mode = "unbag" THEN "set_paths"
                     ELSE IF mode = "validate" THEN "validate"
                     ELSE "update"
            /\ UNCHANGED outcome
    /\ UNCHANGED <<files, dirs, manifest, target_manifest, old_manifest, exclude,
                   written, faults, bag, paths, tmp_dir, bag_metadata_folder, validated>>
    /\ UNCHANGED <<unbag_options, pool_state>>

\* unbag: paths = self.set_unbag_paths(outdir, archivematica, inplace)
UnbagSetPaths ==
    /\ pc = "set_paths"
    /\ paths' = set_unbag_paths(outdir, archivematica, inplace)
    /\ pc' = "validate"
    /\ UNCHANGED <<files, dirs, manifest, target_manifest, old_manifest, exclude,
                   written, faults, bag, outcome, tmp_dir, bag_metadata_folder,
                   validated>>
    /\ UNCHANGED <<unbag_options, pool_state>>

\* validate_bag(fast): self.bag.validate(processes, fast), in unbag and validate mode
ValidateBag ==
    /\ pc = "validate"
    /\ validated' = TRUE
    /\ IF ~validate(files, bag, fast)
       THEN /\ outcome' = throw_error([text |-> "bag is invalid", paths |-> {}],
                                      "ValidationError", quiet)
            /\ pc' = "aborted"
       ELSE /\ pc' = IF mode = "unbag" THEN "make_dirs" ELSE "end"
            /\ UNCHANGED outcome
    /\ UNCHANGED <<files, dirs, manifest, target_manifest, old_manifest, exclude,
                   written, faults, bag, paths, tmp_dir, bag_metadata_folder>>
    /\ UNCHANGED <<unbag_options, pool_state>>

\* unbag: self.make_unbag_dirs(archivematica, paths, inplace)
UnbagMakeDirs ==
    /\ pc = "make_dirs"
    /\ LET r == mkdirs(files, dirs, make_unbag_dirs(archivematica, paths, inplace))
       IN  /\ dirs' = r.dirs
           /\ IF r.error # "none"
              THEN /\ outcome' = throw_error(OSError(r.path), r.error, quiet)
                   /\ pc' = "aborted"
              ELSE /\ pc' = "read_manifest"
                   /\ UNCHANGED outcome
    /\ UNCHANGED <<files, manifest, target_manifest, old_manifest, exclude,
                   written, faults, bag, paths, tmp_dir, bag_metadata_folder, validated>>
    /\ UNCHANGED <<unbag_options, pool_state>>

\* unbag: old_manifest.manifest = self.read_bag_manifest()
UnbagReadManifest ==
    /\ pc = "read_manifest"
    /\ old_manifest' = read_bag_manifest(bag)
    /\ pc' = "setup_tmp"
    /\ UNCHANGED <<files, dirs, manifest, target_manifest, exclude, outcome,
                   written, faults, bag, paths, tmp_dir, bag_metadata_folder, validated>>
    /\ UNCHANGED <<unbag_options, pool_state>>

\* unbag: tmp_dir = self.setup_tmp_dir(inplace)
UnbagSetupTmpDir ==
    /\ pc = "setup_tmp"
    /\ IF inplace
       THEN LET t == join(bag_path, tmp \o TIME_FMT_METADIR)
                d == mkdir(files, dirs, t)
                m == move_flat(files, d.dirs, glob_files(files, bag_path), t)
            IN  IF d.error # "none"
                THEN /\ outcome' = throw_error(OSError(t), d.error, quiet)
                     /\ pc' = "aborted"
                     /\ UNCHANGED <<files, dirs, tmp_dir>>
                ELSE /\ files' = m.files
                     /\ dirs' = m.dirs
                     /\ tmp_dir' = t
                     /\ IF m.error
                        THEN /\ outcome' = throw_error(OSError(t), "CopyError", quiet)
                             /\ pc' = "aborted"
                        ELSE /\ pc' = "copy_data"
                             /\ UNCHANGED outcome
       ELSE /\ tmp_dir' = <<>>
            /\ pc' = "copy_data"
            /\ UNCHANGED <<files, dirs, outcome>>
    /\ UNCHANGED <<manifest, target_manifest, old_manifest, exclude, written, faults,
                   bag, paths, bag_metadata_folder, validated>>
    /\ UNCHANGED <<unbag_options, pool_state>>

RECURSIVE copy_in_order(_, _, _, _)
\* The files after copytree has copied the files `order` of src one after another,
\* each read when its turn comes: a copy that lands on a file of src that is still
\* to be copied changes what that later copy reads.
copy_in_order(fs, order, src, dst) ==
    IF order = <<>> THEN fs
    ELSE copy_in_order((Rebase(Head(order), src, dst) :> fs[Head(order)]) @@ fs,
                       Tail(order), src, dst)

\* unbag: copy_files(self.data_path, paths['unbag'], 'recursive'); the order in which
\* copytree takes the entries of a directory is that of os.scandir, i.e. any.
UnbagCopy ==
    /\ pc = "copy_data"
    /\ LET r == copy_files(files, dirs, data_path, paths.unbag, "recursive")
       IN  /\ dirs' = r.dirs
           /\ IF r.error
              THEN /\ files' = r.files
                   /\ outcome' = throw_error(OSError(paths.unbag), "CopyError", quiet)
                   /\ pc' = "aborted"
              ELSE /\ \E order \in Orders(rglob_files(files, data_path)) :
                        files' = copy_in_order(files, order, data_path, paths.unbag)
                   /\ pc' = "copied_data"
                   /\ UNCHANGED outcome
    /\ UNCHANGED <<manifest, target_manifest, old_manifest, exclude, written, faults,
                   bag, paths, tmp_dir, bag_metadata_folder, validated>>
    /\ UNCHANGED <<unbag_options, pool_state>>

\* The copies that the copy of the payload has made at the target.
UnbagCopies ==
    {f \in DOMAIN files :
        \E g \in rglob_files(files0, data_path) : f = Rebase(g, data_path, paths.unbag)}

\* The storage fails: a copy does not hold the bytes that were written to it, or is
\* not there at all.
UnbagCopyFault ==
    /\ pc = "copied_data"
    /\ faults < MaxUnbagFaults
    /\ \E f \in UnbagCopies :
         \/ \E c \in Contents \ {files[f]} : files' = [files EXCEPT ![f] = c]
         \/ files' = [g \in DOMAIN files \ {f} |-> files[g]]
    /\ faults' = faults + 1
    /\ UNCHANGED <<dirs, pc, manifest, target_manifest, old_manifest, exclude, outcome,
                   written, bag, paths, tmp_dir, bag_metadata_folder, validated>>
    /\ UNCHANGED <<unbag_options, pool_state>>

\* The verification step with its failure only recorded: the run goes on to the
\* later outputs.
UnbagVerify_goes_on ==
    /\ pc = "copied_data"
    /\ exclude' = IF inplace THEN <<tmp_dir, data_path>> ELSE <<>>
    /\ IF fast
       THEN LET e == fast_compare(files, dirs, data_path, paths.unbag, exclude')
            IN  /\ IF e.type = "ManifestError"
                   THEN outcome' = throw_error(e, "ManifestError", quiet)
                   ELSE UNCHANGED outcome
                /\ UNCHANGED <<manifest, target_manifest>>
       ELSE /\ manifest' = create(files, dirs, paths.unbag, exclude')
            /\ target_manifest' = old_manifest
            /\ LET o == compare(manifest', target_manifest', quiet)
               IN  IF Failed(o) THEN outcome' = o ELSE UNCHANGED outcome
    /\ pc' = "save_archivematica"
    /\ UNCHANGED <<files, dirs, old_manifest, written, faults, bag, paths, tmp_dir,
                   bag_metadata_folder, validated>>
    /\ UNCHANGED <<unbag_options, pool_state>>

\* unbag: validating the copies against the bag manifest: fast_compare, or
\* new_manifest.create(paths['unbag'], exclude) and new_manifest.compare
UnbagVerify ==
    /\ pc = "copied_data"
    /\ exclude' = IF inplace THEN <<tmp_dir, data_path>> ELSE <<>>
    /\ IF fast
       THEN LET e == fast_compare(files, dirs, data_path, paths.unbag, exclude')
            IN  /\ IF e.type = "ManifestError"
                   THEN outcome' = throw_error(e, "ManifestError", quiet)
                        /\ pc' = "aborted"
                   ELSE UNCHANGED outcome /\ pc' = "save_archivematica"
                /\ UNCHANGED <<manifest, target_manifest>>
       ELSE /\ manifest' = create(files, dirs, paths.unbag, exclude')
            /\ target_manifest' = old_manifest
            /\ LET o == compare(manifest', target_manifest', quiet)
               IN  IF Failed(o)
                   THEN outcome' = o /\ pc' = "aborted"
                   ELSE UNCHANGED outcome /\ pc' = "save_archivematica"
    /\ UNCHANGED <<files, dirs, old_manifest, written, faults, bag, paths, tmp_dir,
                   bag_metadata_folder, validated>>
    /\ UNCHANGED <<unbag_options, pool_state>>

\* unbag: old_manifest.save_for_archivematica(paths['archivematica_metadata']), with
\* archivematica_manifest at its default
UnbagSaveArchivematica ==
    /\ pc = "save_archivematica"
    /\ IF archivematica
       THEN written' = (archivematica_file(paths.archivematica_metadata, alg)
                           :> archivematica_text(old_manifest)) @@ written
       ELSE UNCHANGED written
    /\ pc' = IF copy_bag_files THEN "metadata_folder" ELSE "end"
    /\ UNCHANGED <<files, dirs, manifest, target_manifest, old_manifest, exclude,
                   outcome, faults, bag, paths, tmp_dir, bag_metadata_folder, validated>>
    /\ UNCHANGED <<unbag_options, pool_state>>

\* unbag: bag_metadata_folder = self.make_bag_metadata_folder(paths['bag_metadata'])
\* (Main passes make_unbag_file = copy_bag_files)
UnbagMetadataFolder ==
    /\ pc = "metadata_folder"
    /\ LET t == paths.bag_metadata \o TIME_FMT_METADIR
           d == mkdir(files, dirs, t)
       IN  /\ dirs' = d.dirs
           /\ IF d.error # "none"
              THEN /\ outcome' = throw_error(OSError(t), d.error, quiet)
                   /\ pc' = "aborted"
                   /\ UNCHANGED bag_metadata_folder
              ELSE /\ bag_metadata_folder' = t
                   /\ pc' = "copy_bag_files"
                   /\ UNCHANGED outcome
    /\ UNCHANGED <<files, manifest, target_manifest, old_manifest, exclude,
                   written, faults, bag, paths, tmp_dir, validated>>
    /\ UNCHANGED <<unbag_options, pool_state>>

\* unbag: self.copy_bag_files(bag_metadata_folder, tmp_dir, inplace)
UnbagCopyBagFiles ==
    /\ pc = "copy_bag_files"
    /\ LET src == IF inplace THEN tmp_dir ELSE bag_path
           c   == copy_flat(files, dirs, glob_files(files, src), bag_metadata_folder)
           r1  == rmtree(c.files, c.dirs, tmp_dir)
           r2  == rmtree(r1.files, r1.dirs, data_path)
       IN  IF c.error
           THEN /\ files' = c.files
                /\ dirs' = c.dirs
                /\ outcome' = throw_error(OSError(bag_metadata_folder), "Exception",
                                          quiet)
                /\ pc' = "aborted"
           ELSE /\ files' = IF inplace THEN r2.files ELSE c.files
                /\ dirs' = IF inplace THEN r2.dirs ELSE c.dirs
                /\ pc' = "unbag_file"
                /\ UNCHANGED outcome
    /\ UNCHANGED <<manifest, target_manifest, old_manifest, exclude, written, faults,
                   bag, paths, tmp_dir, bag_metadata_folder, validated>>
    /\ UNCHANGED <<unbag_options, pool_state>>

\* The fields make_unbag_file writes that the model keeps: 'target' and
\* 'Fixity check type'.
unbag_fields(unbag_path, inpl, fst) ==
    [target |-> IF inpl THEN "in place" ELSE dirname(unbag_path),
     fixity |-> IF fst THEN BAG_INFO_FAST ELSE BAG_INFO_CHECKSUM]

\* unbag: self.make_unbag_file(bag_metadata_folder, paths['unbag'], 'unbag.txt', ...)
UnbagMakeUnbagFile ==
    /\ pc = "unbag_file"
    /\ written' = (join(bag_metadata_folder, <<"u", "n", "b", "a", "g", ".", "t", "x", "t">>)
                      :> unbag_fields(paths.unbag, inplace, fast)) @@ written
    /\ pc' = "end"
    /\ UNCHANGED <<files, dirs, manifest, target_manifest, old_manifest, exclude,
                   outcome, faults, bag, paths, tmp_dir, bag_metadata_folder, validated>>
    /\ UNCHANGED <<unbag_options, pool_state>>

\* The content bag.save writes to bag-info.txt (not interpreted).
SavedTagContent ==
    <<1, 0>>

\* update: bag.update_metadata(metadata, manifests=update_manifest, fast): the fixity
\* check type is set when the manifests are regenerated, and bag.save rewrites
\* bag-info.txt and, with manifests, the records of the payload.
UpdateMetadata ==
    /\ pc = "update"
    /\ LET payload == rglob_files(files, data_path)
           rel(f)  == Drop(f, Len(join(bag_path, <<>>)))
           info    == IF update_manifest
                      THEN IF fast THEN BAG_INFO_FAST ELSE BAG_INFO_CHECKSUM
                      ELSE bag.info
           entries == IF update_manifest
                      THEN [e \in {rel(f) : f \in payload} \cup TagFiles |->
                              IF e \in TagFiles THEN hexdigest(SavedTagContent)
                              ELSE hexdigest(files[join(bag_path, e)])]
                      ELSE bag.entries
           oxum    == IF update_manifest
                      THEN <<Sum([f \in payload |-> Len(files[f])]), Cardinality(payload)>>
                      ELSE bag.oxum
       IN  /\ bag' = [path |-> bag.path, entries |-> entries, info |-> info,
                      oxum |-> oxum]
           /\ files' = [files EXCEPT ![join(bag_path, <<"b", "a", "g", "-", "i", "n", "f", "o", ".", "t", "x", "t">>)] = SavedTagContent]
    /\ pc' = "end"
    /\ UNCHANGED <<dirs, manifest, target_manifest, old_manifest, exclude, outcome,
                   written, faults, paths, tmp_dir, bag_metadata_folder, validated>>
    /\ UNCHANGED <<unbag_options, pool_state>>

\* Main, end of the line: the duration and get_end_text are printed when not quiet,
\* and the process ends.
MainEnd ==
    /\ pc = "end"
    /\ outcome' = IF quiet THEN Returned
                  ELSE LET t == get_end_text(mode, inplace, indirs[1], outdir, fast)
                       IN  [kind |-> "returned", type |-> "none", text |-> t.text,
                            paths |-> t.paths]
    /\ pc' = "done"
    /\ UNCHANGED <<files, dirs, manifest, target_manifest, old_manifest, exclude,
                   written, faults, bag, paths, tmp_dir, bag_metadata_folder, validated>>
    /\ UNCHANGED <<unbag_options, pool_state>>

NextUnbag ==
    \/ MainCheckPaths
    \/ MainOpenBag
    \/ UnbagSetPaths
    \/ ValidateBag
    \/ UnbagMakeDirs
    \/ UnbagReadManifest
    \/ UnbagSetupTmpDir
    \/ UnbagCopy
    \/ UnbagCopyFault
    \/ UnbagVerify
    \/ UnbagSaveArchivematica
    \/ UnbagMetadataFolder
    \/ UnbagCopyBagFiles
    \/ UnbagMakeUnbagFile
    \/ UpdateMetadata
    \/ MainEnd

SpecUnbag ==
    InitUnbag /\ [][NextUnbag]_vars

\* The payload files of the bag when the run began.
OriginalPayload ==
    rglob_files(files0, data_path)

\* The path of payload file g relative to data/.
PayloadRel(g) ==
    Drop(g, Len(join(data_path, <<>>)))

\* The outcome is a failed verification of the copies: the ManifestError of
\* get_exception or of fast_compare, raised or printed.
VerificationFailed(o) ==
    /\ Failed(o)
    /\ o.text \in {"Number of copied files do not match source", "Checksum mismatch",
                   "Expected files and bytes, but found"}

\* The run has made the copy of the payload (and storage kept what was written).
PayloadCopied ==
    /\ mode = "unbag" /\ faults = 0
    /\ \/ pc \in {"copied_data", "save_archivematica", "metadata_folder",
                  "copy_bag_files", "unbag_file", "end", "done"}
       \/ pc = "aborted" /\ VerificationFailed(outcome)

\* C12: in-place unbag of a bag whose payload has a top-level directory named
\* 'data': once files have been copied the original payload files are no longer at
\* their original place (the payload directory was renamed before the copy), and
\* when the run has ended every payload file is in the root at its payload-relative
\* path and nowhere else beneath the root's data directory.
C12_DataPayloadStaged ==
    (PayloadCopied /\ inplace /\ ~archivematica
       /\ \E g \in OriginalPayload : Under(g, join(data_path, data))) =>
        /\ \A g \in OriginalPayload : ~isfile(files, g)
        /\ pc \in {"done", "aborted"} =>
             \A g \in OriginalPayload :
                 /\ isfile(files, join(bag_path, PayloadRel(g)))
                 /\ files[join(bag_path, PayloadRel(g))] = files0[g]

\* C13: in the modes unbag, validate and update nothing of the filesystem differs
\* from what it was when the run began unless bagit has been asked to validate the
\* bag, and after a failed validation the filesystem is what it was.
C13_ValidateBeforeChange ==
    mode \in {"unbag", "validate", "update"} =>
        /\ (files # files0 \/ dirs # dirs0 \/ written # <<>>) => validated
        /\ (pc = "aborted" /\ outcome.type = "ValidationError") =>
              files = files0 /\ dirs = dirs0 /\ written = <<>>

\* C14: when an unbag fails in planning (in check_paths, make_unbag_dirs or
\* setup_tmp_dir) because a directory exists already or a parent is missing, no
\* directory and no file has been created, moved or deleted at that moment.
C14_PlanningFailureTouchesNothing ==
    [][(/\ mode = "unbag"
        /\ pc \in {"check_paths", "make_dirs", "setup_tmp"}
        /\ pc' = "aborted") =>
          (files' = files0 /\ dirs' = dirs0 /\ written' = <<>>)]_vars

\* C15: when the verification of the copies fails in unbag (full or fast), that step
\* changes no file and no directory, the run stops there, and none of the later
\* outputs exists: no archival checksum file, no unbag.txt, no bag-files directory;
\* the payload files of the bag that the storage fault cannot reach are still there.
C15_FailedVerificationKeepsCopies ==
    /\ [][(mode = "unbag" /\ pc = "copied_data" /\ Failed(outcome')) =>
             (files' = files /\ dirs' = dirs /\ written' = written)]_vars
    /\ [][~(mode = "unbag" /\ VerificationFailed(outcome))]_vars
    /\ [](mode = "unbag" /\ VerificationFailed(outcome) =>
             /\ written = <<>>
             /\ bag_metadata_folder = <<>>
             /\ \A d \in dirs : ~StartsWith(d, paths.bag_metadata)
             /\ \A g \in OriginalPayload :
                    (\A h \in OriginalPayload : Rebase(h, data_path, paths.unbag) # g) =>
                        isfile(files, g))

\* C15 witness: an unbag to a target in archival layout, with the sidecar copy asked
\* for, whose full comparison has failed on a changed copy; the other copy is still
\* at the target.
C15_Witness ==
    /\ mode = "unbag" /\ ~inplace /\ archivematica /\ copy_bag_files /\ ~fast
    /\ pc = "aborted" /\ VerificationFailed(outcome)
    /\ outcome.text = "Checksum mismatch"
    /\ faults = 1
    /\ Cardinality(UnbagCopies) = 2

\* C16: a run that aborts ends with a raised exception or a non-zero exit status,
\* quiet or not, and the success text is printed with status zero only at Done.
C16_AbortIsNotSuccess ==
    /\ pc = "aborted" => (outcome.kind = "raised" \/ exit_status(outcome) # 0)
    /\ (outcome.kind = "returned" /\ outcome.text # "") => pc = "done"

\* C20: in the verification of an in-place unbag a regular file beneath the target
\* is left out by the exclusion list exactly when it lies in the staging directory
\* or in the original data directory.
C20_OnlyStagingExcluded ==
    (mode = "unbag" /\ inplace /\ exclude # <<>>) =>
        \A f \in rglob_files(files, paths.unbag) :
            Excluded(f, exclude) <=> (Under(f, tmp_dir) \/ Under(f, data_path))

\* C21: an in-place unbag that has completed successfully has deleted the staging
\* directory and the original data directory, with and without the sidecar copy.
C21_InPlaceCleansUp ==
    (mode = "unbag" /\ inplace /\ faults = 0 /\ pc = "done") =>
        /\ ~isdir(dirs, tmp_dir)
        /\ ~isdir(dirs, data_path)
        /\ rglob_files(files, tmp_dir) = {}
        /\ rglob_files(files, data_path) = {}

\* C22: for a valid bag whose payload has been copied byte for byte to the unbag
\* target, the manifest read from the bag's records (read_bag_manifest) and the
\* manifest made by hashing the target (Manifest.create) are equal entry by entry:
\* same relative paths, same digests, same order, in both layouts.
C22_BagManifestEqualsCreated ==
    (mode = "unbag" /\ ~inplace /\ ~fast /\ faults = 0 /\ manifest # <<>>) =>
        /\ target_manifest = read_bag_manifest(bag)
        /\ manifest = target_manifest

\* The paths of manifest m, as a set.
PathSet(m) ==
    {m[i][1] : i \in 1..Len(m)}

\* Manifest m names the files of the tree under root r by their paths relative to
\* the parent of r, one path per file.
NamesTree(m, r) ==
    /\ PathSet(m) = {RelPath(f, r) : f \in rglob_files(files, r)}
    /\ Cardinality(PathSet(m)) = Cardinality(rglob_files(files, r))

\* C23: prune_filenames removes only the leading prefix: for every root (also one
\* directly beneath the filesystem root) and every file under it the pruned path is
\* the file's path relative to the root's parent, with any later occurrence of the
\* prefix text kept, and distinct files get distinct paths.
C23_PruneStripsLeadingPrefix ==
    /\ (mode = "none" /\ (x = 1 \/ pc \in {"compare", "done"})) =>
          NamesTree(manifest, indirs[1])
    /\ (mode = "none" /\ pc \in {"compare", "done"}) =>
          NamesTree(target_manifest, indirs[2])

\* The bag's top-level metadata files, as they were when the run began.
BagTagFiles ==
    {f \in DOMAIN files0 : dirname(f) = bag_path}

\* C24: after a successful unbag with the sidecar copy in archival layout the
\* payload is in <root>/objects, <root>/metadata and
\* <root>/metadata/submissionDocumentation exist, and the bag's top-level metadata
\* files are in the directory <bagName>_bagfiles directly beneath
\* submissionDocumentation, the bag_metadata path of set_unbag_paths.
C24_ArchivalLayout ==
    (mode = "unbag" /\ archivematica /\ copy_bag_files /\ faults = 0 /\ pc = "done") =>
        /\ paths.unbag = join(paths.parent, objects)
        /\ \A g \in OriginalPayload :
              /\ isfile(files, join(paths.unbag, PayloadRel(g)))
              /\ files[join(paths.unbag, PayloadRel(g))] = files0[g]
        /\ isdir(dirs, join(paths.parent, metadata))
        /\ isdir(dirs, join(join(paths.parent, metadata), submissionDocumentation))
        /\ paths.bag_metadata
             = join(join(join(paths.parent, metadata), submissionDocumentation),
                    bag_name \o bagfiles)
        /\ bag_metadata_folder = paths.bag_metadata
        /\ isdir(dirs, paths.bag_metadata)
        /\ \A f \in BagTagFiles :
              /\ isfile(files, join(paths.bag_metadata, basename(f)))
              /\ files[join(paths.bag_metadata, basename(f))] = files0[f]

\* The in-place unbag has not yet come to the deletions of copy_bag_files.
BeforeDeletion ==
    pc \in {"check_paths", "open_bag", "set_paths", "validate", "make_dirs",
            "read_manifest", "setup_tmp", "copy_data", "copied_data",
            "save_archivematica", "metadata_folder", "copy_bag_files"}

\* C25: in an in-place unbag the original data directory and the staged bag metadata
\* are deleted only after the verification of the copies has succeeded, and in every
\* state before that deletion every payload file of the bag is still under data/
\* with the content it had, whatever the names in the payload.
C25_PayloadKeptUntilVerified ==
    (mode = "unbag" /\ inplace /\ faults = 0) =>
        /\ (~isdir(dirs, data_path) \/ (tmp_dir # <<>> /\ ~isdir(dirs, tmp_dir))) =>
              pc \in {"unbag_file", "end", "done"}
        /\ (BeforeDeletion \/ pc = "aborted") =>
              \A g \in OriginalPayload : isfile(files, g) /\ files[g] = files0[g]

\* The files and directories beneath root r are what they were when the run began.
Untouched(r) ==
    /\ {f \in DOMAIN files : f = r \/ Under(f, r)}
         = {f \in DOMAIN files0 : f = r \/ Under(f, r)}
    /\ \A f \in DOMAIN files0 : (f = r \/ Under(f, r)) => files[f] = files0[f]
    /\ {d \in dirs : d = r \/ Under(d, r)} = {d \in dirs0 : d = r \/ Under(d, r)}

\* C26: bag-to-target and unbag-to-target leave their sources as they were: for every
\* source and destination that check_paths accepts and in every outcome, nothing
\* beneath a source root or beneath the source bag is created, modified, moved or
\* deleted.
C26_SourcesUnchanged ==
    /\ (mode = "unbag" /\ ~inplace) => Untouched(bag_path)
    /\ mode = "bag" => \A i \in 1..Len(indirs) : Untouched(indirs[i])

====
